---- MODULE Spec2Model ----
(***************************************************************************)
(* Model of the btc_relay program (programs/relayer/src/lib.rs, state.rs,  *)
(* errors.rs).  The program state is the set of program-owned accounts:    *)
(* the RelayState singleton, the Header accounts (seed: block hash), the   *)
(* Fork accounts (seed: chain id) and the BlockHash accounts (seed:        *)
(* height).  Every instruction is one atomic transaction: a failing        *)
(* instruction commits nothing.                                            *)
(*                                                                         *)
(* Numbers are kept in the range the model checker can represent: the      *)
(* headers of the universe carry difficulty bits whose decoded target is   *)
(* below 2^23, and hashes are abstract 256-bit values given by a table.    *)
(***************************************************************************)
EXTENDS Integers, Sequences, FiniteSets, TLC

VARIABLES relay_state, headers, forks, chain, last

vars == <<relay_state, headers, forks, chain, last>>

----------------------------------------------------------------------------
(* Program constants (state.rs)                                            *)

CHAIN_ID == 10
DIFFICULTY_ADJUSTMENT_INTERVAL == 2016
RETARGET_PERIOD == 1209600
CONFIRMATIONS == 6
MAIN_CHAIN_ID == 1

\* DIFF1_TARGET = 0xffff followed by 26 zero bytes, as big-endian base-256 digits
DIFF1_TARGET == <<255, 255>> \o [i \in 1..26 |-> 0]

----------------------------------------------------------------------------
(* Bounds of the model                                                     *)

\* number of headers on the longest branch above the first header
PathLen == 9
\* longest batch handed to submit_block_header_batch
MaxBatch == 2

----------------------------------------------------------------------------
(* Bit and byte helpers                                                    *)

RECURSIVE BitAnd(_, _)
BitAnd(a, b) ==
    IF a = 0 \/ b = 0 THEN 0
    ELSE (IF a % 2 = 1 /\ b % 2 = 1 THEN 1 ELSE 0) + 2 * BitAnd(a \div 2, b \div 2)

RECURSIVE BitOr(_, _)
BitOr(a, b) ==
    IF a = 0 THEN b
    ELSE IF b = 0 THEN a
    ELSE (IF a % 2 = 1 \/ b % 2 = 1 THEN 1 ELSE 0) + 2 * BitOr(a \div 2, b \div 2)

RECURSIVE Pow256(_)
Pow256(n) == IF n = 0 THEN 1 ELSE 256 * Pow256(n - 1)

\* u32::from_le_bytes
from_le_bytes(b) == b[1] + 256 * b[2] + 65536 * b[3] + 16777216 * b[4]

\* u32::to_le_bytes, used to lay the fields of the universe's headers out
to_le_bytes(n) ==
    <<n % 256, (n \div 256) % 256, (n \div 65536) % 256, n \div 16777216>>

----------------------------------------------------------------------------
(* Byte codec and target codec                                             *)

\* (b << 16) | (b & 0x00FF00) | (b >> 16) on u32: the left shift drops the
\* bits moved past bit 31
reverse_uint24(b) ==
    BitOr(BitOr((b % 65536) * 65536, BitAnd(b, 65280)), b \div 65536)

\* header[68..72] as a little-endian u32
extract_timestamp(header) == from_le_bytes(header.timestamp)

\* header[72..76]: three mantissa bytes and the exponent byte.  256^exponent
\* overflows U256 from exponent 32 on, and the product overflows when the
\* mantissa needs more than 32 - exponent bytes; both cases give 0.
extract_target_at(header) ==
    LET m == from_le_bytes(<<header.bits[1], header.bits[2], header.bits[3], 0>>)
        e == header.bits[4]
        mantissa == reverse_uint24(m)
        exponent == IF e < 3 THEN 0 ELSE e - 3
    IN  IF exponent >= 32 THEN 0
        ELSE IF exponent > 28 /\ mantissa >= Pow256(32 - exponent) THEN 0
        ELSE mantissa * Pow256(exponent)

\* U256::to_string: the decimal digits, most significant first
RECURSIVE to_string(_)
to_string(n) ==
    IF n < 10 THEN <<n>> ELSE Append(to_string(n \div 10), n % 10)

\* U256::from_dec_str: folds the digits; the empty string parses as 0
RECURSIVE from_dec_str(_)
from_dec_str(s) ==
    IF s = <<>> THEN 0
    ELSE 10 * from_dec_str(SubSeq(s, 1, Len(s) - 1)) + s[Len(s)]

----------------------------------------------------------------------------
(* Difficulty retarget engine                                              *)

\* long division of a big-endian base-256 number by d > 0
RECURSIVE DivDigits(_, _, _)
DivDigits(digits, d, rem) ==
    IF digits = <<>> THEN <<>>
    ELSE LET cur == rem * 256 + Head(digits)
         IN  <<cur \div d>> \o DivDigits(Tail(digits), d, cur % d)

\* diff1_target.checked_div(target).unwrap_or_default()
calculate_difficulty(target) ==
    IF target = 0 THEN [i \in 1..Len(DIFF1_TARGET) |-> 0]
    ELSE DivDigits(DIFF1_TARGET, target, 0)

\* mutant: the short end of the clamp is set at half a period
retarget_algorithm_half_floor(previous_target, first_timestamp, second_timestamp) ==
    IF second_timestamp < first_timestamp
    THEN [ok |-> FALSE, val |-> 0]
    ELSE LET e0 == second_timestamp - first_timestamp
             e1 == IF e0 < RETARGET_PERIOD \div 2 THEN RETARGET_PERIOD \div 2 ELSE e0
             elapsed_time == IF e1 > RETARGET_PERIOD * 4 THEN RETARGET_PERIOD * 4 ELSE e1
             adjusted == (previous_target \div 65536) * elapsed_time
         IN  [ok |-> TRUE, val |-> (adjusted \div RETARGET_PERIOD) * 65536]

\* Result<U256>: ok = FALSE stands for Err(ArithmeticError).  The products
\* stay below 2^256 for every target the universe's headers can carry.
retarget_algorithm(previous_target, first_timestamp, second_timestamp) ==
    IF second_timestamp < first_timestamp
    THEN [ok |-> FALSE, val |-> 0]
    ELSE LET e0 == second_timestamp - first_timestamp
             e1 == IF e0 < RETARGET_PERIOD \div 4 THEN RETARGET_PERIOD \div 4 ELSE e0
             elapsed_time == IF e1 > RETARGET_PERIOD * 4 THEN RETARGET_PERIOD * 4 ELSE e1
             adjusted == (previous_target \div 65536) * elapsed_time
         IN  [ok |-> TRUE, val |-> (adjusted \div RETARGET_PERIOD) * 65536]

\* Result<bool> of is_correct_difficulty_target:
\*   "Err"   the require! failed with InvalidDifficultyPeriod
\*   "Panic" retarget_algorithm returned Err and was unwrapped
\*   "True" / "False" the Ok value
is_correct_difficulty_target(prev_start_target, prev_start_time, prev_end_target, prev_end_time, next_target) ==
    IF calculate_difficulty(prev_start_target) = calculate_difficulty(prev_end_target)
    THEN "Err"
    ELSE LET r == retarget_algorithm(prev_start_target, prev_start_time, prev_end_time)
         IN  IF ~r.ok THEN "Panic"
             ELSE IF BitAnd(next_target, r.val) = next_target THEN "True"
             ELSE "False"

is_period_start(height) == height % DIFFICULTY_ADJUSTMENT_INTERVAL = 0

is_period_end(height) == height % DIFFICULTY_ADJUSTMENT_INTERVAL = 2015

----------------------------------------------------------------------------
(* Accounts.  Each account map is keyed by the value its seeds name: a      *)
(* Header by block hash, a Fork by chain id, a BlockHash by height.        *)

\* [u8; 32] of zeroes, the value of an unwritten hash field
ZeroHash == 0

\* the seed of the RelayState singleton
RelaySeed == "relay_state"

\* the zeroed data of an account that init / init_if_needed has just created
DefaultHeader == [height |-> 0, chain_id |-> 0]

DefaultFork == [height |-> 0, ancestor |-> ZeroHash, descendants |-> <<>>]

\* the account at a seed: the stored one, or the one init_if_needed creates
Load(accounts, key, default) ==
    IF key \in DOMAIN accounts THEN accounts[key] ELSE default

\* the account map after the instruction's exit wrote the account back
Store(accounts, key, value) ==
    [k \in DOMAIN accounts \cup {key} |-> IF k = key THEN value ELSE accounts[k]]

\* what an instruction hands back: the error kind or "Ok", the accounts it
\* commits (the accounts it was given when it fails) and the events it emitted
Fail(s, error) == [result |-> error, state |-> s, events |-> <<>>]

Done(s, events) == [result |-> "Ok", state |-> s, events |-> events]

----------------------------------------------------------------------------
(* Headers                                                                 *)

\* double SHA-256 of the 80 bytes, read as the little-endian number the
\* program compares with the target.  The digest is an uninterpreted
\* injective function of the header bytes; HashOfNonce fixes its value on
\* the headers of the universe, which differ in their nonce.
HashOfNonce(n) == 3 + 2 * n

hash256(header) == HashOfNonce(header.nonce)

----------------------------------------------------------------------------
(* Instructions.  s is the record of the account maps the instruction is    *)
(* given: relay_state, headers, forks, chain.                               *)

\* _store_block_header: the Header account and the BlockHash account after it
_store_block_header(digest, height, chain_id) ==
    [header |-> [height |-> height, chain_id |-> chain_id],
     chain |-> [block_hash |-> digest]]

\* Initialize: relay_state, fork (seed CHAIN_ID), chain (seed genesis_height)
\* and header (seed genesis_block_hash) are created by init.
initialize(s, genesis_header, genesis_height, genesis_block_hash) ==
    LET digest == hash256(genesis_header)
        target == extract_target_at(genesis_header)
        timestamp == extract_timestamp(genesis_header)
        relay == [best_block |-> digest,
                  best_height |-> genesis_height,
                  epoch_start_target |-> to_string(target),
                  epoch_end_target |-> to_string(target),
                  epoch_start_time |-> timestamp,
                  epoch_end_time |-> timestamp,
                  chain_counter |-> 0]
        fork == [DefaultFork EXCEPT !.height = genesis_height]
        stored == _store_block_header(digest, genesis_height, CHAIN_ID)
    IN  IF ~(genesis_height > 0) THEN Fail(s, "InvalidGenesisHeight")
        ELSE IF digest # genesis_block_hash THEN Fail(s, "InvalidBlockHash")
        ELSE Done([relay_state |-> Store(s.relay_state, RelaySeed, relay),
                   headers |-> Store(s.headers, genesis_block_hash, stored.header),
                   forks |-> Store(s.forks, CHAIN_ID, fork),
                   chain |-> Store(s.chain, genesis_height, stored.chain)], <<>>)

\* reorg_chain: the counter is advanced; the promotion, the event and the
\* best-block update are commented out in the source
reorg_chain(relay, chain_id, height, hash_curr_block) ==
    [relay EXCEPT !.chain_counter = relay.chain_counter + 1]

\* _initialize_fork(fork, hash_curr_block, hash_prev_block, new_chain_id, height)
_initialize_fork(fork, hash_curr_block, hash_prev_block, new_chain_id, height) ==
    [fork EXCEPT !.height = height,
                 !.ancestor = hash_prev_block,
                 !.descendants = <<hash_curr_block>>]

\* the epoch samples after lines 121-140, for a header that passed the checks
epoch_update(relay, header, block_height) ==
    IF is_period_start(block_height)
    THEN [relay EXCEPT !.epoch_start_target = to_string(extract_target_at(header)),
                       !.epoch_start_time = extract_timestamp(header),
                       !.epoch_end_target = <<>>,
                       !.epoch_end_time = 0]
    ELSE IF is_period_end(block_height)
    THEN [relay EXCEPT !.epoch_end_target = to_string(extract_target_at(header)),
                       !.epoch_end_time = extract_timestamp(header)]
    ELSE relay

\* lines 142-160: the fork dispatch of a header that passed every check.
\* fork is the account at seed next_counter, prev_fork the (read-only)
\* account at seed prev_block_hash_chain_id.
fork_dispatch(s, relay, hash_curr_block, block_hash, prev_header, prev_fork, prev_block_hash_chain_id, block_height, next_counter) ==
    LET fork == Load(s.forks, next_counter, DefaultFork)
        is_new_fork == prev_fork.height # prev_header.height
        extended == [fork EXCEPT !.height = block_height,
                                 !.descendants = Append(fork.descendants, hash_curr_block)]
        stored == _store_block_header(hash_curr_block, block_height,
                      IF is_new_fork THEN next_counter ELSE prev_block_hash_chain_id)
        relay1 ==
            IF is_new_fork
            THEN [relay EXCEPT !.chain_counter = next_counter]
            ELSE IF prev_block_hash_chain_id = MAIN_CHAIN_ID
            THEN [relay EXCEPT !.best_block = hash_curr_block,
                               !.best_height = block_height]
            ELSE IF block_height >= relay.best_height + CONFIRMATIONS
            THEN reorg_chain(relay, prev_block_hash_chain_id, block_height, hash_curr_block)
            ELSE relay
        fork1 ==
            IF is_new_fork
            THEN _initialize_fork(fork, hash_curr_block, relay.best_block,
                                  next_counter, block_height)
            ELSE IF prev_block_hash_chain_id = MAIN_CHAIN_ID
            THEN extended
            ELSE IF block_height >= relay.best_height + CONFIRMATIONS
            THEN fork
            ELSE extended
    IN  [relay_state |-> Store(s.relay_state, RelaySeed, relay1),
         headers |-> Store(s.headers, block_hash, stored.header),
         forks |-> Store(s.forks, next_counter, fork1),
         chain |-> Store(s.chain, block_height, stored.chain)]

\* the conditions of the require! lines of submit_block_header
\* mutant: a stale counter value is let through
counter_matches_or_stale(relay, next_counter) == next_counter <= relay.chain_counter + 1

counter_matches(relay, next_counter) == relay.chain_counter + 1 = next_counter

\* mutant: the duplicate check is dropped
is_duplicate_never(header_account) == FALSE

is_duplicate(header_account) == header_account.chain_id # 0

\* without the overflow trap 0 - 1 wraps to 2^32 - 1, above every stored height
previous_block_found(prv_height, block_height) ==
    prv_height > 0 /\ block_height # 0 /\ prv_height = block_height - 1

\* mutant: the proof-of-work check is dropped
meets_target_always(hash_curr_block, target) == TRUE

\* U256::from_little_endian(hash) <= target; a hash is kept as that number
meets_target(hash_curr_block, target) == hash_curr_block <= target

\* the accounts of SubmitBlockHeader without init: relay_state, prev_header
\* and prev_fork must exist before the handler runs
accounts_resolve(s, prev_block_hash, prev_block_hash_chain_id) ==
    /\ RelaySeed \in DOMAIN s.relay_state
    /\ prev_block_hash \in DOMAIN s.headers
    /\ prev_block_hash_chain_id \in DOMAIN s.forks

\* lines 105-131: the first check that fails, or "Ok".  overflow_checks says
\* whether the build traps integer overflow (block_height - 1 at height 0).
submit_checks(s, header, block_hash, prev_block_hash, prev_block_hash_chain_id, block_height, next_counter, overflow_checks) ==
    IF ~accounts_resolve(s, prev_block_hash, prev_block_hash_chain_id)
    THEN "AccountNotInitialized"
    ELSE
    LET relay == s.relay_state[RelaySeed]
        prev_header == s.headers[prev_block_hash]
        this_header == Load(s.headers, block_hash, DefaultHeader)
        hash_curr_block == hash256(header)
        prv_height == prev_header.height
        target == extract_target_at(header)
        prv_target == from_dec_str(relay.epoch_start_target)
        prv_end_target == from_dec_str(relay.epoch_end_target)
        verdict == is_correct_difficulty_target(prv_target, relay.epoch_start_time,
                       prv_end_target, relay.epoch_end_time, target)
    IN  IF ~counter_matches(relay, next_counter) THEN "InvalidCounter"
        ELSE IF hash_curr_block # block_hash THEN "InvalidBlockHash"
        ELSE IF is_duplicate(this_header) THEN "DuplicateBlock"
        ELSE IF prv_height > 0 /\ block_height = 0 /\ overflow_checks THEN "Panic"
        ELSE IF ~previous_block_found(prv_height, block_height)
        THEN "PreviousBlockNotFound"
        ELSE IF prev_header.chain_id # prev_block_hash_chain_id THEN "InvalidChainId"
        ELSE IF ~meets_target(hash_curr_block, target) THEN "LowDifficulty"
        ELSE IF is_period_start(block_height) /\ verdict = "Panic" THEN "Panic"
        ELSE IF is_period_start(block_height) /\ verdict # "True"
        THEN "IncorrectDifficultyTarget"
        ELSE "Ok"

\* lines 133-160: what a header that passed the checks writes
submit_effects(s, header, block_hash, prev_block_hash, prev_block_hash_chain_id, block_height, next_counter) ==
    fork_dispatch(s, epoch_update(s.relay_state[RelaySeed], header, block_height),
                  hash256(header), block_hash, s.headers[prev_block_hash],
                  s.forks[prev_block_hash_chain_id], prev_block_hash_chain_id,
                  block_height, next_counter)

\* mutant: the epoch samples are written before the period-start check and
\* stay written when it fails
submit_block_header_early_write(s, header, block_hash, prev_block_hash, prev_block_hash_chain_id, block_height, next_counter, overflow_checks) ==
    LET error == submit_checks(s, header, block_hash, prev_block_hash,
                     prev_block_hash_chain_id, block_height, next_counter,
                     overflow_checks)
        written == [s EXCEPT !.relay_state =
                       Store(s.relay_state, RelaySeed,
                             epoch_update(s.relay_state[RelaySeed], header, block_height))]
    IN  IF error = "IncorrectDifficultyTarget" THEN Fail(written, error)
        ELSE IF error # "Ok" THEN Fail(s, error)
        ELSE Done(submit_effects(s, header, block_hash, prev_block_hash,
                      prev_block_hash_chain_id, block_height, next_counter), <<>>)

submit_block_header(s, header, block_hash, prev_block_hash, prev_block_hash_chain_id, block_height, next_counter, overflow_checks) ==
    LET error == submit_checks(s, header, block_hash, prev_block_hash,
                     prev_block_hash_chain_id, block_height, next_counter,
                     overflow_checks)
    IN  IF error # "Ok" THEN Fail(s, error)
        ELSE Done(submit_effects(s, header, block_hash, prev_block_hash,
                      prev_block_hash_chain_id, block_height, next_counter), <<>>)

\* submit_block_header_batch: the body is "Ok(())"
submit_block_header_batch(s, batch) == Done(s, <<>>)

\* verify_tx: the body is "Ok(false)"
verify_tx(s, height, confirmations, insecure) ==
    [result |-> "Ok", state |-> s, events |-> <<>>, value |-> FALSE]

----------------------------------------------------------------------------
(* The universe of headers the callers submit.  A header is the fields of   *)
(* the 80 bytes: nonce, prev_hash (offset 4), timestamp (offset 68) and     *)
(* bits (offset 72), the last two as their little-endian bytes.             *)

Header(nonce, prev_hash, time, b72, b73, b74, b75) ==
    [nonce |-> nonce, prev_hash |-> prev_hash,
     timestamp |-> to_le_bytes(time), bits |-> <<b72, b73, b74, b75>>]

\* the first header sits two below a period start
BaseHeight == DIFFICULTY_ADJUSTMENT_INTERVAL - 2

BaseTime == RETARGET_PERIOD

\* the longest branch: header 0 at BaseHeight, header k on top of header k - 1.
\* Header 1 closes the period one retarget period after header 0 with another
\* target, header 2 opens the next period with a target inside the expected one.
PathHeader(k) ==
    Header(k,
           IF k = 0 THEN ZeroHash ELSE HashOfNonce(k - 1),
           IF k = 0 THEN BaseTime ELSE BaseTime + RETARGET_PERIOD + 600 * (k - 1),
           IF k = 1 THEN 3 ELSE IF k = 2 THEN 4 ELSE 5, 0, 0, 3)

\* a period-start header on header 1 whose target is outside the expected one
WrongTargetHeader == Header(PathLen + 1, HashOfNonce(1), BaseTime + RETARGET_PERIOD + 600, 2, 0, 0, 3)

\* a header on header 2 whose hash is above its target (target 1)
LowWorkHeader == Header(PathLen + 2, HashOfNonce(2), BaseTime + RETARGET_PERIOD + 1200, 0, 0, 1, 3)

\* a second header on header 2
SiblingHeader == Header(PathLen + 3, HashOfNonce(2), BaseTime + RETARGET_PERIOD + 1300, 5, 0, 0, 3)

Headers ==
    {PathHeader(k) : k \in 0..PathLen}
        \cup {WrongTargetHeader, LowWorkHeader, SiblingHeader}

\* the headers a deployment is initialized with: the foot of the branch, the
\* header that closes the period, and the header with too little work
GenesisHeaders == {PathHeader(0), PathHeader(1), LowWorkHeader}

\* the header of the universe a header names as its parent, if any
ParentsOf(header) == {p \in Headers : hash256(p) = header.prev_hash}

\* the height a caller that follows the headers' parent fields declares
RECURSIVE TrueHeight(_)
TrueHeight(header) ==
    IF ParentsOf(header) = {} THEN BaseHeight
    ELSE 1 + TrueHeight(CHOOSE p \in ParentsOf(header) : TRUE)

\* a hash that is the digest of no header
WrongHash == HashOfNonce(0) - 1

----------------------------------------------------------------------------
(* The state machine: one action per instruction.  last records the latest  *)
(* instruction: its arguments, what it returned and the accounts before it. *)

Accounts == [relay_state |-> relay_state, headers |-> headers,
             forks |-> forks, chain |-> chain]

NoHeader == Header(0, ZeroHash, 0, 0, 0, 0, 0)

NoCall == [op |-> "none", header |-> NoHeader, block_hash |-> ZeroHash,
           prev_block_hash |-> ZeroHash, prev_block_hash_chain_id |-> 0,
           block_height |-> 0, next_counter |-> 0, batch |-> <<>>,
           confirmations |-> 0, result |-> "Ok", events |-> <<>>,
           value |-> FALSE, pre |-> <<>>]

\* the transaction commits the accounts the instruction returned
Commit(out, call) ==
    /\ relay_state' = out.state.relay_state
    /\ headers' = out.state.headers
    /\ forks' = out.state.forks
    /\ chain' = out.state.chain
    /\ last' = [call EXCEPT !.result = out.result, !.events = out.events,
                            !.pre = Accounts]

Init ==
    /\ relay_state = <<>>
    /\ headers = <<>>
    /\ forks = <<>>
    /\ chain = <<>>
    /\ last = NoCall

Initialized == RelaySeed \in DOMAIN relay_state

Initialize ==
    /\ ~Initialized
    /\ \E genesis_header \in GenesisHeaders :
       \E genesis_height \in {TrueHeight(genesis_header), 0} :
       \E genesis_block_hash \in {hash256(genesis_header), WrongHash} :
          Commit(initialize(Accounts, genesis_header, genesis_height, genesis_block_hash),
                 [NoCall EXCEPT !.op = "initialize", !.header = genesis_header,
                                !.block_height = genesis_height,
                                !.block_hash = genesis_block_hash])

CounterNow == IF Initialized THEN relay_state[RelaySeed].chain_counter ELSE 0

\* the arguments of a caller that read the accounts and follows the header's
\* parent field: the digest, the parent's recorded chain id, the height of
\* the header and the next counter value
HonestCall(header) ==
    [NoCall EXCEPT !.op = "submit_block_header",
                   !.header = header,
                   !.block_hash = hash256(header),
                   !.prev_block_hash = header.prev_hash,
                   !.prev_block_hash_chain_id =
                       IF header.prev_hash \in DOMAIN headers
                       THEN headers[header.prev_hash].chain_id ELSE CHAIN_ID,
                   !.block_height = TrueHeight(header),
                   !.next_counter = CounterNow + 1]

\* the calls made with a header: the honest one, and the honest one with one
\* argument changed (claimed hash, parent chain id, height, counter)
Calls(header) ==
    LET c == HonestCall(header)
    IN  {c, [c EXCEPT !.block_hash = WrongHash], [c EXCEPT !.next_counter = CounterNow]}
            \cup {[c EXCEPT !.prev_block_hash_chain_id = id] : id \in {MAIN_CHAIN_ID, CHAIN_ID}}
            \cup {[c EXCEPT !.block_height = h] : h \in {0, c.block_height + 1}}

SubmitBlockHeader ==
    \E header \in Headers :
    \E call \in Calls(header) :
    \E overflow_checks \in (IF call.block_height = 0 THEN BOOLEAN ELSE {TRUE}) :
       Commit(submit_block_header(Accounts, call.header, call.block_hash,
                                  call.prev_block_hash, call.prev_block_hash_chain_id,
                                  call.block_height, call.next_counter, overflow_checks),
              call)

\* the batches: up to MaxBatch headers, each the parent of the next
RECURSIVE BatchEndingAt(_, _)
BatchEndingAt(header, n) ==
    IF n = 1 THEN <<header>>
    ELSE Append(BatchEndingAt(CHOOSE p \in ParentsOf(header) : TRUE, n - 1), header)

RECURSIVE Depth(_)
Depth(header) ==
    IF ParentsOf(header) = {} THEN 1
    ELSE 1 + Depth(CHOOSE p \in ParentsOf(header) : TRUE)

SubmitBlockHeaderBatch ==
    /\ Initialized
    /\ \E h \in Headers : \E n \in 1..MaxBatch :
          /\ n <= Depth(h)
          /\ Commit(submit_block_header_batch(Accounts, BatchEndingAt(h, n)),
                    [NoCall EXCEPT !.op = "submit_block_header_batch",
                                   !.batch = BatchEndingAt(h, n)])

VerifyTx ==
    /\ Initialized
    /\ \E height \in DOMAIN chain :
       \E confirmations \in {1, CONFIRMATIONS} :
          LET out == verify_tx(Accounts, height, confirmations, FALSE)
          IN  /\ Commit(out, [NoCall EXCEPT !.op = "verify_tx",
                                            !.block_height = height,
                                            !.confirmations = confirmations,
                                            !.value = out.value])

Next == Initialize \/ SubmitBlockHeader \/ SubmitBlockHeaderBatch \/ VerifyTx

Spec == Init /\ [][Next]_vars

----------------------------------------------------------------------------
(* Vocabulary of the properties                                            *)

Submitted == last.op = "submit_block_header"

Accepted == Submitted /\ last.result = "Ok"

\* the RelayState before the latest instruction, and now
RelayBefore == last.pre.relay_state[RelaySeed]

RelayNow == relay_state[RelaySeed]

\* the latest submission reached the handler: its accounts resolved
HandlerRan ==
    Submitted /\ accounts_resolve(last.pre, last.prev_block_hash,
                                  last.prev_block_hash_chain_id)

ParentBefore == last.pre.headers[last.prev_block_hash]

ParentForkBefore == last.pre.forks[last.prev_block_hash_chain_id]

\* the latest submission passed the counter, hash and duplicate checks
PassedToLinkage ==
    /\ Submitted
    /\ RelaySeed \in DOMAIN last.pre.relay_state
    /\ last.next_counter = RelayBefore.chain_counter + 1
    /\ last.block_hash = hash256(last.header)
    /\ last.block_hash \notin DOMAIN last.pre.headers

\* ... and the linkage and chain id checks too
PassedToWork ==
    /\ PassedToLinkage
    /\ HandlerRan
    /\ last.block_height = ParentBefore.height + 1
    /\ ParentBefore.chain_id = last.prev_block_hash_chain_id

\* the header of the universe with a digest
HeaderOf(hash) == CHOOSE h \in Headers : hash256(h) = hash

----------------------------------------------------------------------------
(* C1  Reorg promotion.  When submit_block_header accepts a header that     *)
(* extends a non-main fork to a height >= best_height + CONFIRMATIONS, the  *)
(* call emits exactly one ChainReorg event, the height index along the      *)
(* promoted branch returns the branch's hashes, and the headers that were   *)
(* canonical at those heights carry the freshly retired fork id.            *)

ReorgTriggered ==
    /\ Accepted
    /\ last.prev_block_hash_chain_id # MAIN_CHAIN_ID
    /\ ParentForkBefore.height = ParentBefore.height
    /\ last.block_height >= RelayBefore.best_height + CONFIRMATIONS

PromotedBranch == Append(ParentForkBefore.descendants, last.block_hash)

C1_ReorgPromotion ==
    ReorgTriggered =>
        /\ Len(last.events) = 1
        /\ \A i \in 1..Len(PromotedBranch) :
              LET promoted == PromotedBranch[i]
                  height == headers[promoted].height
              IN  /\ chain[height].block_hash = promoted
                  /\ height \in DOMAIN last.pre.chain
                        => LET old == last.pre.chain[height].block_hash
                           IN  old # promoted
                                  => /\ headers[old].chain_id = RelayNow.chain_counter
                                     /\ headers[old].chain_id # MAIN_CHAIN_ID

----------------------------------------------------------------------------
(* C2  Main-chain extension.  When submit_block_header accepts a header     *)
(* whose parent is the tip of the main chain (the best block, which is the  *)
(* genesis header after initialize), best_block, best_height and the height *)
(* index at its height are the new header's at once.                        *)

ExtendsMainTip == Accepted /\ last.prev_block_hash = RelayBefore.best_block

C2_MainExtensionTracked ==
    ExtendsMainTip =>
        /\ RelayNow.best_block = last.block_hash
        /\ RelayNow.best_height = last.block_height
        /\ chain[last.block_height].block_hash = last.block_hash

----------------------------------------------------------------------------
(* C3  Duplicate submission.  A submission of a header that an earlier      *)
(* instruction stored (same bytes and digest, the then-current next counter,*)
(* parent accounts that exist as in the accepted submission) fails with     *)
(* DuplicateBlock and leaves every account as it was, whichever branch of   *)
(* the fork dispatch stored the header.                                     *)

Resubmitted ==
    /\ HandlerRan
    /\ last.next_counter = RelayBefore.chain_counter + 1
    /\ last.block_hash = hash256(last.header)
    /\ last.block_hash \in DOMAIN last.pre.headers

C3_DuplicateRejected ==
    Resubmitted => last.result = "DuplicateBlock" /\ Accounts = last.pre

\* the resubmitted header was stored by the reorg-triggering branch: an
\* extension (not the first header) of a non-main fork, 6 above the best height
C3_Witness ==
    /\ Resubmitted
    /\ last.result = "DuplicateBlock"
    /\ LET stored == headers[last.block_hash]
       IN  /\ stored.chain_id \notin {MAIN_CHAIN_ID, CHAIN_ID}
           /\ forks[stored.chain_id].descendants # <<last.block_hash>>
           /\ stored.height >= RelayNow.best_height + CONFIRMATIONS

----------------------------------------------------------------------------
(* C4  Linkage.  A submission that passes the size, counter, hash and       *)
(* duplicate checks and whose declared parent has no header record, or      *)
(* whose declared height is not the parent's height + 1 (height 0          *)
(* included), fails with PreviousBlockNotFound and stores no header.        *)

BadLinkage ==
    /\ PassedToLinkage
    /\ \/ last.prev_block_hash \notin DOMAIN last.pre.headers
       \/ last.block_height # ParentBefore.height + 1

C4_PreviousBlockNotFound ==
    BadLinkage =>
        /\ last.result = "PreviousBlockNotFound"
        /\ last.block_hash \notin DOMAIN headers

----------------------------------------------------------------------------
(* C5  Proof of work.  As stated: no header whose hash, read as a           *)
(* little-endian number, exceeds the target decoded from its own bits is    *)
(* ever stored.                                                             *)

----------------------------------------------------------------------------
(* C6  Counter compare-and-swap.  A submission whose next_counter is not    *)
(* chain_counter + 1 fails with InvalidCounter and changes nothing.  After  *)
(* a submission that observed counter c and created fork c + 1, the counter *)
(* is c + 1, so every other submission prepared against c (next_counter =   *)
(* c + 1) now fails with InvalidCounter: of two racing fork creations       *)
(* exactly one succeeds.                                                    *)

CreatedFork ==
    /\ Accepted
    /\ ParentForkBefore.height # ParentBefore.height

\* what a racing caller that still presents stale_counter gets now
StaleOutcome(header, stale_counter) ==
    submit_block_header(Accounts, header, hash256(header), header.prev_hash,
                        HonestCall(header).prev_block_hash_chain_id,
                        TrueHeight(header), stale_counter, TRUE)

----------------------------------------------------------------------------
(* C7  Batch atomicity.  submit_block_header_batch either commits every     *)
(* header, ending in the state that submit_block_header reaches header by   *)
(* header, or fails and leaves the accounts as they were.                   *)

\* submit_block_header on each header in order, each call prepared against
\* the accounts the previous one left
RECURSIVE OneByOne(_, _)
OneByOne(s, batch) ==
    IF batch = <<>> THEN Done(s, <<>>)
    ELSE LET header == Head(batch)
             out == submit_block_header(s, header, hash256(header), header.prev_hash,
                        IF header.prev_hash \in DOMAIN s.headers
                        THEN s.headers[header.prev_hash].chain_id ELSE CHAIN_ID,
                        TrueHeight(header), s.relay_state[RelaySeed].chain_counter + 1,
                        TRUE)
         IN  IF out.result # "Ok" THEN Fail(s, out.result)
             ELSE OneByOne(out.state, Tail(batch))

C7_BatchAllOrNothing ==
    last.op = "submit_block_header_batch" =>
        LET out == OneByOne(last.pre, last.batch)
        IN  IF out.result = "Ok"
            THEN last.result = "Ok" /\ Accounts = out.state
            ELSE last.result # "Ok" /\ Accounts = last.pre

----------------------------------------------------------------------------
(* C8  Confirmations.  verify_tx succeeds only if confirmations <=          *)
(* best_height - height + 1, and fails with InsufficientConfirmations       *)
(* otherwise.                                                               *)

C8_InsufficientConfirmations ==
    (last.op = "verify_tx" /\ last.confirmations + last.block_height > RelayNow.best_height + 1)
        => last.result = "InsufficientConfirmations"

----------------------------------------------------------------------------
(* C9  Initialization.  After a successful initialize the genesis header is *)
(* stored under the main chain id at the genesis height, the main-chain     *)
(* Fork record has that height and the genesis hash as its only descendant, *)
(* and RelayState has best = genesis and both epoch samples = the genesis   *)
(* target and timestamp.                                                    *)

InitializedNow == last.op = "initialize" /\ last.result = "Ok"

C9_GenesisSeedsMainChain ==
    InitializedNow =>
        LET hash == hash256(last.header)
            target == extract_target_at(last.header)
            time == extract_timestamp(last.header)
        IN  /\ headers[hash] = [height |-> last.block_height, chain_id |-> MAIN_CHAIN_ID]
            /\ MAIN_CHAIN_ID \in DOMAIN forks
            /\ forks[MAIN_CHAIN_ID].height = last.block_height
            /\ forks[MAIN_CHAIN_ID].descendants = <<hash>>
            /\ RelayNow.best_block = hash
            /\ RelayNow.best_height = last.block_height
            /\ from_dec_str(RelayNow.epoch_start_target) = target
            /\ from_dec_str(RelayNow.epoch_end_target) = target
            /\ RelayNow.epoch_start_time = time
            /\ RelayNow.epoch_end_time = time

----------------------------------------------------------------------------
(* C10  Frame of a failed submission.  A submit_block_header call that      *)
(* fails, at whichever check, leaves RelayState, every header record,       *)
(* every fork record and the height index as they were before the call.     *)

----------------------------------------------------------------------------
(* Vocabulary of the period-start properties                               *)

\* the latest submission passed every check before the period-start check,
\* at a period-start height
PeriodStartValidated ==
    /\ PassedToWork
    /\ last.block_hash <= extract_target_at(last.header)
    /\ is_period_start(last.block_height)

\* the epoch samples the validation read
StartTargetBefore == from_dec_str(RelayBefore.epoch_start_target)

EndTargetBefore == from_dec_str(RelayBefore.epoch_end_target)

\* retarget(epochStartTarget, epochStartTime, epochEndTime)
ExpectedBefore ==
    retarget_algorithm(StartTargetBefore, RelayBefore.epoch_start_time,
                       RelayBefore.epoch_end_time)

----------------------------------------------------------------------------
(* C11  Error kinds.  Every rejected submit_block_header call is rejected   *)
(* with a named error kind: no call, whatever the state and the input       *)
(* (declared height 0, a period-start header validated while the end time   *)
(* is below the start time or after the end sample was cleared), aborts     *)
(* with a panic.                                                            *)

C11_NoUnclassifiedFailure == Submitted => last.result # "Panic"

----------------------------------------------------------------------------
(* C12  Period-start target.  A header at a period-start height is accepted *)
(* only if every bit of its target is set in expected = retarget(start      *)
(* target, start time, end time), and otherwise fails with                  *)
(* IncorrectDifficultyTarget.  On acceptance the start samples are the new  *)
(* header's target and timestamp and the end samples are cleared; headers   *)
(* at other heights never change the start samples.                         *)

TargetWithinExpected ==
    /\ ExpectedBefore.ok
    /\ BitAnd(extract_target_at(last.header), ExpectedBefore.val)
          = extract_target_at(last.header)

C12_PeriodStartTarget ==
    /\ PeriodStartValidated =>
          /\ last.result = "Ok" => TargetWithinExpected
          /\ ~TargetWithinExpected => last.result = "IncorrectDifficultyTarget"
          /\ last.result = "Ok" =>
                /\ from_dec_str(RelayNow.epoch_start_target) = extract_target_at(last.header)
                /\ RelayNow.epoch_start_time = extract_timestamp(last.header)
                /\ RelayNow.epoch_end_target = <<>>
                /\ RelayNow.epoch_end_time = 0
    /\ (Accepted /\ ~is_period_start(last.block_height)) =>
          /\ RelayNow.epoch_start_target = RelayBefore.epoch_start_target
          /\ RelayNow.epoch_start_time = RelayBefore.epoch_start_time

----------------------------------------------------------------------------
(* C13  Degenerate period.  When a period-start header is validated, the    *)
(* caller receives InvalidDifficultyPeriod exactly when the start target    *)
(* and the end target of the previous period are the same number.           *)

C13_InvalidDifficultyPeriod ==
    PeriodStartValidated =>
        (last.result = "InvalidDifficultyPeriod" <=> StartTargetBefore = EndTargetBefore)

----------------------------------------------------------------------------
(* retarget_algorithm on its own: the inputs are drawn by the initial       *)
(* state, the action applies the function to an elapsed time and to twice   *)
(* that time.  No account exists; last holds the inputs and the results.    *)

\* previous targets: quotients by 65536 from 0 to MaxQuotient
MaxQuotient == 6

\* elapsed times: a quarter of the period plus 0..ElapsedSteps sixteenths
ElapsedSteps == 28

ElapsedStep == RETARGET_PERIOD \div 16

PreviousTargets ==
    {q * 65536 + r : q \in 0..MaxQuotient, r \in {0, 1, 65535}}

ElapsedTimes ==
    {RETARGET_PERIOD \div 4 + k * ElapsedStep + d : k \in 0..ElapsedSteps, d \in {0, 1}}

NoAccounts ==
    /\ relay_state = <<>>
    /\ headers = <<>>
    /\ forks = <<>>
    /\ chain = <<>>

RetargetInit ==
    /\ NoAccounts
    /\ \E previous_target \in PreviousTargets :
       \E first_timestamp \in {0, BaseTime} :
       \E elapsed \in ElapsedTimes :
          last = [op |-> "inputs", previous_target |-> previous_target,
                  first_timestamp |-> first_timestamp, elapsed |-> elapsed]

Retarget ==
    /\ last.op = "inputs"
    /\ last' = [op |-> "retarget_algorithm",
                previous_target |-> last.previous_target,
                first_timestamp |-> last.first_timestamp,
                elapsed |-> last.elapsed,
                once |-> retarget_algorithm(last.previous_target, last.first_timestamp,
                                            last.first_timestamp + last.elapsed),
                twice |-> retarget_algorithm(last.previous_target, last.first_timestamp,
                                             last.first_timestamp + 2 * last.elapsed)]
    /\ UNCHANGED <<relay_state, headers, forks, chain>>

RetargetNext == Retarget

RetargetSpec == RetargetInit /\ [][RetargetNext]_vars

\* the elapsed time and its double are both inside [P/4, 4P]
Unclamped ==
    /\ last.op = "retarget_algorithm"
    /\ last.elapsed >= RETARGET_PERIOD \div 4
    /\ 2 * last.elapsed <= RETARGET_PERIOD * 4

----------------------------------------------------------------------------
(* C14  Monotonic retarget.  As stated: for every previous target and every *)
(* elapsed time e with e and 2e inside [P/4, 4P], the retarget over 2e is   *)
(* strictly above the retarget over e.                                      *)

C14_StrictlyMonotonic ==
    Unclamped =>
        /\ last.once.ok /\ last.twice.ok
        /\ last.twice.val > last.once.val

\* C14 (amended)  The same for every previous target of at least 2 * 65536;
\* for every previous target the retarget over 2e is not below the one over e.
C14_StrictlyMonotonicFromTwoUnits ==
    Unclamped =>
        /\ last.once.ok /\ last.twice.ok
        /\ last.twice.val >= last.once.val
        /\ last.previous_target >= 2 * 65536 => last.twice.val > last.once.val

\* the smallest previous target and the shortest elapsed time of the amended claim
C14_Witness ==
    /\ Unclamped
    /\ last.previous_target = 2 * 65536
    /\ last.elapsed = RETARGET_PERIOD \div 4
    /\ last.once.val = 0
    /\ last.twice.val = 65536

----------------------------------------------------------------------------
(* extract_target_at on its own: the initial state draws the four bytes at  *)
(* offset 72..75 of a header, the action decodes them.  The bytes are kept  *)
(* where the decoded number stays below 2^31: byte 73 below 128, and        *)
(* exponent byte 4 only with bytes 72 and 74 below 128 and byte 73 zero.    *)

ByteSamples == {0, 1, 2, 127, 255}

CompactBits ==
    {<<b72, b73, b74, e>> : b72 \in ByteSamples, b73 \in {0, 1, 127}, b74 \in ByteSamples, e \in {2, 3}}
        \cup {<<b72, 0, b74, 4>> : b72 \in ByteSamples \ {255}, b74 \in ByteSamples \ {255}}

TargetInit ==
    /\ NoAccounts
    /\ \E bits \in CompactBits :
          last = [op |-> "bits",
                  header |-> Header(0, ZeroHash, 0, bits[1], bits[2], bits[3], bits[4])]

DecodeTarget ==
    /\ last.op = "bits"
    /\ last' = [op |-> "extract_target_at", header |-> last.header,
                target |-> extract_target_at(last.header)]
    /\ UNCHANGED <<relay_state, headers, forks, chain>>

TargetNext == DecodeTarget

TargetSpec == TargetInit /\ [][TargetNext]_vars

----------------------------------------------------------------------------
(* C15  Compact target.  extract_target_at decodes the bytes at offset      *)
(* 72..75 as the standard Bitcoin compact target: with exponent e = byte 75 *)
(* and mantissa m = byte 72 + 256 * byte 73 + 65536 * byte 74, the result   *)
(* is m * 256^(e - 3).                                                      *)

\* the standard mantissa of the four bytes
StandardMantissa(bits) == bits[1] + 256 * bits[2] + 65536 * bits[3]

C15_StandardCompactTarget ==
    (last.op = "extract_target_at" /\ last.header.bits[4] >= 3) =>
        last.target = StandardMantissa(last.header.bits) * Pow256(last.header.bits[4] - 3)

----------------------------------------------------------------------------
(* C16  Fork extension.  When submit_block_header accepts a header whose    *)
(* parent is the tip of the parent's fork, the header is stored under the   *)
(* parent's chain id and the Fork record of that chain id gains the new     *)
(* hash as last descendant and the new height; no other Fork record is      *)
(* modified, so the parent is no longer the tip of its fork.                *)

ExtendedTip ==
    /\ Accepted
    /\ ParentForkBefore.height = ParentBefore.height

C16_ForkExtension ==
    ExtendedTip =>
        LET id == last.prev_block_hash_chain_id
        IN  /\ headers[last.block_hash].chain_id = id
            /\ forks[id].descendants = Append(ParentForkBefore.descendants, last.block_hash)
            /\ forks[id].height = last.block_height
            /\ forks[id].height # ParentBefore.height
            /\ \A k \in DOMAIN last.pre.forks \ {id} : forks[k] = last.pre.forks[k]

----------------------------------------------------------------------------
(* C17  Fork creation.  When submit_block_header accepts a header whose     *)
(* parent is not the tip of the parent's fork, chain_counter grows by one,  *)
(* the Fork record at the new counter value has the declared parent's hash  *)
(* as ancestor, the new hash as only descendant and the new height, the     *)
(* header is stored under the new id, and the best block is unchanged.      *)

C17_ForkCreation ==
    CreatedFork =>
        LET id == RelayBefore.chain_counter + 1
        IN  /\ RelayNow.chain_counter = id
            /\ id \in DOMAIN forks
            /\ forks[id] = [height |-> last.block_height,
                            ancestor |-> last.prev_block_hash,
                            descendants |-> <<last.block_hash>>]
            /\ headers[last.block_hash] = [height |-> last.block_height, chain_id |-> id]
            /\ RelayNow.best_block = RelayBefore.best_block
            /\ RelayNow.best_height = RelayBefore.best_height

----------------------------------------------------------------------------
(* C18  Height index.  In every state each entry of the height index is the *)
(* hash of a stored header of that height whose chain id is the main chain  *)
(* id, and accepting a header on another chain id never changes the entry   *)
(* at its height.                                                           *)

C18_HeightIndexIsMainChain ==
    /\ \A h \in DOMAIN chain :
          /\ chain[h].block_hash \in DOMAIN headers
          /\ headers[chain[h].block_hash] = [height |-> h, chain_id |-> MAIN_CHAIN_ID]
    /\ (Accepted /\ headers[last.block_hash].chain_id # MAIN_CHAIN_ID
                 /\ last.block_height \in DOMAIN last.pre.chain)
          => chain[last.block_height] = last.pre.chain[last.block_height]

----------------------------------------------------------------------------
(* C19  Fresh fork ids.  The id given to a new fork is neither 0 nor the    *)
(* main chain id nor the id the genesis header and fork were stored under,  *)
(* it is the id of no header and no Fork record stored before, and so the   *)
(* creation overwrites no Fork record.                                      *)

C19_FreshForkId ==
    CreatedFork =>
        LET id == headers[last.block_hash].chain_id
        IN  /\ id \notin {0, MAIN_CHAIN_ID, CHAIN_ID}
            /\ id \notin DOMAIN last.pre.forks
            /\ \A hash \in DOMAIN last.pre.headers : last.pre.headers[hash].chain_id # id

----------------------------------------------------------------------------
(* C20  Epoch samples of the own branch.  Whenever submit_block_header      *)
(* validates a period-start header, the end samples it reads are the target *)
(* and timestamp of the header's parent and the start samples are those of  *)
(* the start of the parent's period: in the universe that is the genesis    *)
(* header, since every branch has one period boundary.                      *)

\* the genesis header: the stored header of the least height
GenesisBefore ==
    HeaderOf(CHOOSE hash \in DOMAIN last.pre.headers :
                \A other \in DOMAIN last.pre.headers :
                    last.pre.headers[hash].height <= last.pre.headers[other].height)

C20_EpochSamplesOfOwnBranch ==
    PeriodStartValidated =>
        /\ EndTargetBefore = extract_target_at(HeaderOf(last.prev_block_hash))
        /\ RelayBefore.epoch_end_time = extract_timestamp(HeaderOf(last.prev_block_hash))
        /\ StartTargetBefore = extract_target_at(GenesisBefore)
        /\ RelayBefore.epoch_start_time = extract_timestamp(GenesisBefore)

====
